---- MODULE Spec2Model ----
(***************************************************************************)
(* Model of src/pagerank/pagerank.py: transition_model, sample_pagerank    *)
(* and iterate_pagerank.                                                   *)
(*                                                                         *)
(* Pages are the integers 1..N; a corpus (a Python dict of sets) is a      *)
(* function from pages to sets of pages, iterated in key order 1, 2, ..    *)
(* Python floats are fixed-point integers in units of 1/One; One is       *)
(* divisible by every divisor the bounded inputs produce in                *)
(* transition_model and in the final division of sample_pagerank, so those *)
(* are exact; the repeated products of iterate_pagerank truncate to the    *)
(* unit.  A dict is a function whose DOMAIN is its key set.                *)
(***************************************************************************)
EXTENDS Integers, Sequences, FiniteSets, TLC

\* ---------------------------------------------------------------- bounds
MaxPages == 3
MaxWalkPages == 2
MaxSamples == 3
UniformSteps == 4

\* ------------------------------------------------------------ arithmetic
One == 1200000
Milli == One \div 1000
DAMPING == 850 * Milli
MaxPasses == 100
Threshold == Milli

\* the damping factors passed in: 0.5, DAMPING (0.85) and 0.999
DampingFactors == {500 * Milli, DAMPING, 999 * Milli}

\* float product a * b for 0 <= a, b <= One, a a multiple of 1/1000
Mul(a, b) == ((a \div Milli) * b) \div (One \div Milli)

Abs(x) == IF x < 0 THEN -x ELSE x

EmptyDict == [p \in {} |-> 0]

RECURSIVE SumOver(_, _)
SumOver(f, S) ==
    IF S = {} THEN 0
    ELSE LET p == CHOOSE q \in S : TRUE IN f[p] + SumOver(f, S \ {p})

SumValues(f) == SumOver(f, DOMAIN f)

\* --------------------------------------------------------------- corpus
\* what crawl returns: no page links to itself, every link is a page
CorporaUpTo(max) ==
    UNION { { c \in [1..k -> SUBSET (1..k)] : \A p \in 1..k : p \notin c[p] }
            : k \in 1..max }

\* the corpora iterate_pagerank is run on, and those the random walk of
\* sample_pagerank is run on
Corpora == CorporaUpTo(MaxPages)
WalkCorpora == CorporaUpTo(MaxWalkPages)

NoPage == 0

\* the values random.uniform(0, 1) is drawn from
UniformDraws == { (k * One) \div UniformSteps : k \in 0..UniformSteps }

\* ------------------------------------------------------ transition_model
transition_model(corp, page, damping) ==
    LET links == corp[page]
        num_of_links == Cardinality(links)
        num_of_pages == Cardinality(DOMAIN corp)
        probability_per_link ==
            IF num_of_links > 0 THEN damping \div num_of_links ELSE 0
        remain == (One - damping) \div num_of_pages
    IN [key \in {page} \cup links |->
            IF key \in links THEN probability_per_link + remain ELSE remain]

\* the orders in which prob_distribution.items() can yield the entries:
\* the current page was inserted first, then the links in set order
ItemOrders(corp, page) ==
    LET links == corp[page]
        k == Cardinality(links)
    IN { <<page>> \o s : s \in { t \in [1..k -> links] :
                                  \A a, b \in 1..k : a # b => t[a] # t[b] } }

\* the for loop of lines 107-112: the first entry whose running total
\* reaches the draw, or NoPage when the loop ends without a break
RECURSIVE InverseCDF(_, _, _, _, _)
InverseCDF(order, prob, draw, k, running) ==
    IF k > Len(order) THEN [page |-> NoPage, running_prob |-> running]
    ELSE LET r == running + prob[order[k]]
         IN IF draw <= r THEN [page |-> order[k], running_prob |-> r]
            ELSE InverseCDF(order, prob, draw, k + 1, r)

VARIABLES corpus, damping_factor, n, pc,
          page_count, current_page, i,
          probability_page, new_prob_page, cur_page, cnt, ranks

vars == <<corpus, damping_factor, n, pc,
          page_count, current_page, i,
          probability_page, new_prob_page, cur_page, cnt, ranks>>

pages == DOMAIN corpus
N == Cardinality(pages)

sampleVars == <<page_count, current_page, i>>
iterateVars == <<probability_page, new_prob_page, cur_page, cnt>>

\* -------------------------------------------------------- sample_pagerank
\* lines 88-96: counters at zero, a random starting page
InitSample ==
    /\ corpus \in WalkCorpora
    /\ damping_factor \in DampingFactors
    /\ n \in 1..MaxSamples
    /\ pc = "sample"
    /\ page_count = [keys \in DOMAIN corpus |-> 0]
    /\ current_page \in DOMAIN corpus
    /\ i = 0
    /\ probability_page = EmptyDict
    /\ new_prob_page = EmptyDict
    /\ cur_page = NoPage
    /\ cnt = 0
    /\ ranks = EmptyDict

\* a visit recorded with = 1 in place of += 1
CountVisitAssign(counts, page) == [counts EXCEPT ![page] = 1]

\* line 99
CountVisit(counts, page) == [counts EXCEPT ![page] = @ + 1]

\* lines 98-115: one iteration of the sampling loop
SampleStep ==
    /\ pc = "sample"
    /\ i < n
    /\ page_count' = CountVisit(page_count, current_page)
    /\ i' = i + 1
    /\ \E choice \in UniformDraws :
          IF choice <= damping_factor
          THEN \E draw \in UniformDraws, order \in ItemOrders(corpus, current_page) :
                  LET prob_distribution ==
                          transition_model(corpus, current_page, damping_factor)
                      sel == InverseCDF(order, prob_distribution, draw, 1, 0)
                  IN current_page' =
                         IF sel.page = NoPage THEN current_page ELSE sel.page
          ELSE \E page \in pages : current_page' = page
    /\ UNCHANGED <<corpus, damping_factor, n, pc, iterateVars, ranks>>

\* lines 117-121
SampleReturn ==
    /\ pc = "sample"
    /\ i = n
    /\ ranks' = [key \in DOMAIN page_count |-> (page_count[key] * One) \div n]
    /\ pc' = "returned"
    /\ UNCHANGED <<corpus, damping_factor, n, sampleVars, iterateVars>>

NextSample == SampleStep \/ SampleReturn

SpecSample == InitSample /\ [][NextSample]_vars

\* ------------------------------------------------------- iterate_pagerank
\* lines 136-143
InitIterate ==
    /\ corpus \in Corpora
    /\ damping_factor \in DampingFactors
    /\ n = 0
    /\ pc = "iterate"
    /\ page_count = EmptyDict
    /\ current_page = NoPage
    /\ i = 0
    /\ probability_page = [key \in DOMAIN corpus |-> One \div Cardinality(DOMAIN corpus)]
    /\ new_prob_page = EmptyDict
    /\ cur_page = 1
    /\ cnt = 0
    /\ ranks = EmptyDict

\* lines 154-161: what page key adds to the running probability of page cur
Contribution(corp, damping, prob, cur, key) ==
    LET page_links_set == corp[key]
        len == Cardinality(page_links_set)
    IN IF key = cur THEN 0
       ELSE IF cur \notin page_links_set THEN 0
       ELSE IF len # 0 THEN Mul(damping, prob[key] \div len)
       ELSE Mul(damping, prob[key] \div Cardinality(DOMAIN corp))

RECURSIVE RunningProbability(_, _, _, _, _)
RunningProbability(corp, damping, prob, cur, keys) ==
    IF keys = {} THEN 0
    ELSE LET key == CHOOSE q \in keys : TRUE
         IN Contribution(corp, damping, prob, cur, key)
            + RunningProbability(corp, damping, prob, cur, keys \ {key})

\* lines 149-163: the value stored in new_prob_page[cur]
NewProbability(corp, damping, prob, cur) ==
    LET part1 == (One - damping) \div Cardinality(DOMAIN corp)
    IN part1 + RunningProbability(corp, damping, prob, cur, DOMAIN corp)

\* the value of page cur stored in place, in probability_page itself
ProbabilityPageStoredInPlace(prob, cur, value) == [prob EXCEPT ![cur] = value]

\* probability_page after line 163 has stored the value of page cur: the
\* store goes to new_prob_page, probability_page is left as it was
ProbabilityPageAfterStore(prob, cur, value) == prob

\* line 145 and lines 146-166: the body of the for loop for one page
UpdatePage ==
    /\ pc = "iterate"
    /\ cnt < MaxPasses
    /\ cur_page \in pages
    /\ LET base == IF cur_page = 1 THEN EmptyDict ELSE new_prob_page
           value == NewProbability(corpus, damping_factor, probability_page, cur_page)
           prev_prob == probability_page[cur_page]
           dx == Abs(value - prev_prob)
       IN /\ new_prob_page' =
                [key \in DOMAIN base \cup {cur_page} |->
                    IF key = cur_page THEN value ELSE base[key]]
          /\ probability_page' = ProbabilityPageAfterStore(probability_page, cur_page, value)
          /\ IF dx < Threshold
             THEN /\ ranks' = probability_page
                  /\ pc' = "returned"
                  /\ UNCHANGED cur_page
             ELSE /\ cur_page' = cur_page + 1
                  /\ UNCHANGED <<ranks, pc>>
    /\ UNCHANGED <<corpus, damping_factor, n, sampleVars, cnt>>

\* lines 167-168
EndPass ==
    /\ pc = "iterate"
    /\ cnt < MaxPasses
    /\ cur_page = N + 1
    /\ probability_page' = new_prob_page
    /\ cnt' = cnt + 1
    /\ cur_page' = 1
    /\ UNCHANGED <<corpus, damping_factor, n, pc, sampleVars, new_prob_page, ranks>>

\* line 144 false: the function ends without a return statement
LoopExit ==
    /\ pc = "iterate"
    /\ cnt >= MaxPasses
    /\ pc' = "returned_None"
    /\ UNCHANGED <<corpus, damping_factor, n, sampleVars, iterateVars, ranks>>

NextIterate == UpdatePage \/ EndPass \/ LoopExit

SpecIterate == InitIterate /\ [][NextIterate]_vars

\* ================================================================ claims

\* the pages whose value the current pass has stored in new_prob_page
Computed ==
    IF pc = "returned" THEN 1..cur_page
    ELSE IF pc = "iterate" THEN 1..(cur_page - 1)
    ELSE {}

\* the transition distribution as specified: every page is a key, a dangling
\* page spreads its whole mass uniformly
ExpectedTransition(corp, page, damping) ==
    LET links == corp[page]
        count == Cardinality(DOMAIN corp)
    IN [key \in DOMAIN corp |->
            IF links = {} THEN One \div count
            ELSE IF key \in links
                 THEN damping \div Cardinality(links) + (One - damping) \div count
                 ELSE (One - damping) \div count]

\* the recurrence as specified: a page with links gives PR/outdegree to the
\* pages it links to, a dangling page gives PR/N to every page, itself too
RECURSIVE ExpectedInflow(_, _, _, _, _)
ExpectedInflow(corp, damping, prob, cur, keys) ==
    IF keys = {} THEN 0
    ELSE LET key == CHOOSE q \in keys : TRUE
             share ==
                 IF corp[key] = {}
                 THEN Mul(damping, prob[key] \div Cardinality(DOMAIN corp))
                 ELSE IF cur \in corp[key]
                      THEN Mul(damping, prob[key] \div Cardinality(corp[key]))
                      ELSE 0
         IN share + ExpectedInflow(corp, damping, prob, cur, keys \ {key})

ExpectedNewProbability(corp, damping, prob, cur) ==
    (One - damping) \div Cardinality(DOMAIN corp)
        + ExpectedInflow(corp, damping, prob, cur, DOMAIN corp)

\* what the truncation of the fixed-point products may take from a sum
SumSlack == One \div 100000

\* C1: the distribution transition_model returns for the current page of the
\* walk sums to 1, with or without outlinks.
C1_TransitionSumsToOne ==
    (pc = "sample" /\ i < n) =>
        SumValues(transition_model(corpus, current_page, damping_factor)) = One

\* C2: transition_model returns a value for every page of the corpus:
\* d/|L| + (1-d)/N on the links and (1-d)/N elsewhere when the page has
\* links, 1/N everywhere when it has none.
C2_TransitionIsSpecified ==
    (pc = "sample" /\ i < n) =>
        transition_model(corpus, current_page, damping_factor)
            = ExpectedTransition(corpus, current_page, damping_factor)

C4_ReturnsAfterFullPassWithinTolerance ==
    pc = "returned" =>
        /\ DOMAIN new_prob_page = pages
        /\ \A p \in pages :
              Abs(new_prob_page[p] - probability_page[p]) < Threshold

\* C5: the distribution iterate_pagerank returns has a non-negative value
\* for every page and sums to 1, dangling pages or not.
C5_IterateRanksSumToOne ==
    pc = "returned" =>
        /\ DOMAIN ranks = pages
        /\ \A p \in pages : ranks[p] >= 0
        /\ Abs(SumValues(ranks) - One) <= SumSlack

\* C6: iterate_pagerank ends within MaxPasses passes either with a
\* distribution over every page or with a reported non-convergence, never
\* without a result.
C6_IterateEndsWithResult ==
    /\ cnt <= MaxPasses
    /\ pc # "returned_None"
    /\ pc = "returned" => DOMAIN ranks = pages

\* C7: on the corpus of a single page without links the returned rank of
\* the page is 1.
C7_SinglePageRankIsOne ==
    (N = 1 /\ pc = "returned") => ranks = [p \in pages |-> One]

\* C8: the value a pass computes for a page is (1-d)/N plus d times the
\* inflow in which every dangling page gives PR/N to every page.
C8_DanglingMassRedistributed ==
    (pc = "iterate" /\ cnt < MaxPasses /\ cur_page \in pages) =>
        NewProbability(corpus, damping_factor, probability_page, cur_page)
            = ExpectedNewProbability(corpus, damping_factor, probability_page,
                                     cur_page)

\* C9: a pass is a synchronous update: the first pass reads the 1/N
\* distribution, every value a pass has stored is the recurrence applied to
\* the distribution the pass started from, which stays as it was while the
\* pass runs and is replaced by the whole new distribution when it ends.
C9_SynchronousUpdate ==
    /\ cnt = 0 => probability_page = [p \in pages |-> One \div N]
    /\ \A p \in Computed :
          /\ p \in DOMAIN new_prob_page
          /\ new_prob_page[p] =
                NewProbability(corpus, damping_factor, probability_page, p)
    /\ (pc = "iterate" /\ cnt > 0 /\ cur_page = 1) =>
          /\ DOMAIN probability_page = pages
          /\ probability_page = new_prob_page

\* C9 witness: in a later pass, the value stored for page 1 differs from
\* the one the pass started from, and a page that page 1 links to has been
\* computed after it.
C9_Witness ==
    /\ pc = "iterate"
    /\ cnt >= 1
    /\ cur_page >= 3
    /\ new_prob_page[1] # probability_page[1]
    /\ \E q \in 2..(cur_page - 1) : q \in corpus[1]

\* C10: the inverse-CDF loop selects an entry of the transition distribution
\* for every draw in [0, 1), so the walk never stays where it is for want
\* of a selected entry.
C10_DrawAlwaysSelects ==
    (pc = "sample" /\ i < n) =>
        \A draw \in { u \in UniformDraws : u < One } :
            \A order \in ItemOrders(corpus, current_page) :
                InverseCDF(order,
                           transition_model(corpus, current_page, damping_factor),
                           draw, 1, 0).page # NoPage

====
